---- MODULE Spec2Model ----
(***************************************************************************)
(* Caption The Moment (src/app.py): rooms, images and captions kept in a   *)
(* hosted store, image bytes kept in a bucket, and the host and player     *)
(* Streamlit scripts that run against them.                                *)
(*                                                                         *)
(* Every widget interaction reruns the whole script of its session.  The   *)
(* store is shared by all sessions; each call that writes it is one atomic *)
(* step, and the steps of different sessions interleave.  The start of a   *)
(* run (the interaction, or st.rerun) is taken together with the run's     *)
(* first store call, the listing of the room's images.  Any store call may *)
(* raise (transport, permissions); an exception nobody catches ends the    *)
(* run where it is.                                                        *)
(*                                                                         *)
(* The tables hold what the code inserts and lose what the code deletes:   *)
(* the code states no foreign key and no cascade, and removes the captions *)
(* of an image with a call of its own (line 105).  uploaded_at and         *)
(* created_at are not in the payloads; they are the store's time of        *)
(* insertion, the columns the listings order by.  uuid4 is a counter of    *)
(* unused ids.  The text a caption form hands to line 325 is whatever the  *)
(* widget returns, the empty text included.                                *)
(***************************************************************************)
EXTENDS Integers, Sequences, FiniteSets

\* ---- bounds of the model -------------------------------------------------
MaxRooms == 2
MaxImages == 2
MaxCaptions == 2
MaxClock == 1
MaxBatch == 2

Hosts == {"h1", "h2"}
SoloHost == {"h1"}
Players == {"p1"}

\* ---- values --------------------------------------------------------------
NoRoom == 0
NoImage == 0
NoPath == << >>

Whitespace == {" ", "\t"}

\* what a player can have in the caption input when the form is submitted
\* (the empty text covers the input cleared by _clear_caption, line 323)
CaptionTexts ==
  { << >>, <<" ">>, <<"\t", " ">>, <<"a">>, <<" ", "a">>, <<"a", "\t">>,
    <<" ", "a", " ", "b", " ">> }

\* names the uploader accepts (type = png, jpg, jpeg, gif; line 231)
FileNames == { <<"cat", ".", "png">>, <<"cat", ".", "v2", ".", "gif">> }

Max(S) == CHOOSE x \in S : \A y \in S : y <= x

VARIABLES
  rooms,     \* table rooms: the ids inserted
  images,    \* table images: the rows
  captions,  \* table captions: the rows
  bucket,    \* the storage bucket: the paths that hold bytes
  now,       \* the store's clock
  nextImg,   \* uuid4 of upload_image: the next unused image id
  nextCap,   \* uuid4 of add_caption_db: the next unused caption id
  host,      \* the host sessions: position in the script and its locals
  player,    \* the player sessions
  saved      \* history: <<room_id, img_id>> of every row save_image_db inserted

vars == <<rooms, images, captions, bucket, now, nextImg, nextCap,
          host, player, saved>>

store == <<rooms, images, captions, bucket, now, nextImg, nextCap>>

\* ---- pure helpers --------------------------------------------------------

\* str.strip(): drop leading and trailing whitespace
RECURSIVE LStrip(_)
LStrip(s) == IF s # << >> /\ Head(s) \in Whitespace THEN LStrip(Tail(s)) ELSE s

RECURSIVE RStrip(_)
RStrip(s) ==
  IF s # << >> /\ s[Len(s)] \in Whitespace
  THEN RStrip(SubSeq(s, 1, Len(s) - 1)) ELSE s

Strip(s) == RStrip(LStrip(s))

\* Path(name).suffix: the last dot of the name and what follows it
Suffix(name) ==
  LET dots == {i \in 2..Len(name) : name[i] = "."}
  IN IF dots = {} THEN << >> ELSE SubSeq(name, Max(dots), Len(name))

\* f"{room_id}/{img_id}{ext}"
StoragePath(room_id, img_id, ext) == <<room_id, img_id>> \o ext

\* _extract_data: the data of a response
_extract_data(response) == response.data

\* the sequences that hold each row of `rows` once
Orderings(rows) ==
  {s \in [1..Cardinality(rows) -> rows] :
     \A i, j \in DOMAIN s : i # j => s[i] # s[j]}

\* builder.order(column) as the store executes it
OrderBy(rows, column, ascending) ==
  {s \in Orderings(rows) :
     \A i, j \in DOMAIN s :
        i < j => IF ascending THEN s[i][column] <= s[j][column]
                              ELSE s[i][column] >= s[j][column]}

\* _apply_order with the order dropped
ApplyOrderUnordered(rows, column, ascending) == Orderings(rows)

\* _apply_order: one of three call shapes, whichever the client library takes
_apply_order(rows, column, ascending) ==
  UNION { OrderBy(rows, column,
                  CASE shape = "keyword" -> TRUE
                    [] shape = "options" -> ascending
                    [] shape = "column_only" -> TRUE)
          : shape \in {"keyword", "options", "column_only"} }

\* .select(columns): the named columns of each row
Select(s, columns) == [k \in DOMAIN s |-> [c \in columns |-> s[k][c]]]

\* line 77 without its .eq("room_id", room_id)
ImagesOfAnyRoom(room_id) == images

\* .eq("room_id", room_id) on table images (line 77)
ImagesOfRoom(room_id) == {i \in images : i.room_id = room_id}

\* .eq("image_id", image_id) on table captions (line 93)
CaptionsOfImage(image_id) == {c \in captions : c.image_id = image_id}

\* list_room_images: the results the store can return
list_room_images(room_id) ==
  { _extract_data([data |-> Select(s, {"id", "filename", "storage_path", "public_url"})]) :
      s \in _apply_order(ImagesOfRoom(room_id), "uploaded_at", TRUE) }

\* get_captions_for_image: the results the store can return
get_captions_for_image(image_id) ==
  { _extract_data([data |-> Select(s, {"player_name", "text", "created_at"})]) :
      s \in _apply_order(CaptionsOfImage(image_id), "created_at", TRUE) }

\* the ids of the rows of a result (img["id"], lines 274, 282, 322)
Ids(s) == {s[i].id : i \in DOMAIN s}

\* the ids of the rows of a table
RowIds(rows) == {r.id : r \in rows}

\* delete_image_db, line 102
StoragePathOf(rows) ==
  IF rows # {} THEN (CHOOSE r \in rows : TRUE).storage_path ELSE NoPath

\* line 104 without its .eq("id", image_id)
DeleteImageRowsUnfiltered(imgs, image_id) == {}

\* delete_image_db, line 104
DeleteImageRows(imgs, image_id) == {i \in imgs : i.id # image_id}

\* line 105 with .eq("id", image_id) for .eq("image_id", image_id)
DeleteCaptionRowsById(caps, image_id) == {c \in caps : c.id # image_id}

\* delete_image_db, line 105
DeleteCaptionRows(caps, image_id) == {c \in caps : c.image_id # image_id}

\* ---- sessions ------------------------------------------------------------

\* a session between two script runs: view holds the ids of the images whose
\* widgets (Delete button, caption form) the last run rendered
\* (ncaps is history: the captions the image had when its delete began)
HostIdle ==
  [room_id |-> NoRoom, pc |-> "idle", view |-> {},
   uploaded |-> << >>, results |-> << >>,
   target |-> NoImage, storage_path |-> NoPath, ncaps |-> 0]

PlayerIdle ==
  [room_id |-> NoRoom, pc |-> "idle", view |-> {}, target |-> NoImage,
   caption_text |-> << >>, player_name |-> "Player1"]

Init ==
  /\ rooms = {}
  /\ images = {}
  /\ captions = {}
  /\ bucket = {}
  /\ now = 0
  /\ nextImg = 1
  /\ nextCap = 1
  /\ host = [h \in Hosts |-> HostIdle]
  /\ player = [p \in Players |-> PlayerIdle]
  /\ saved = {}

\* the times the store's clock can show at the next insert
Later == {t \in {now, now + 1} : t <= MaxClock}

\* a new script run: the locals of the last run are gone
Fresh(hs) ==
  [hs EXCEPT !.uploaded = << >>, !.results = << >>,
             !.target = NoImage, !.storage_path = NoPath, !.ncaps = 0]

\* an exception nobody catches ends the run: the widgets below it are not rendered
Abort(hs) == [Fresh(hs) EXCEPT !.pc = "idle", !.view = {}]

PlayerAbort(ps) ==
  [ps EXCEPT !.pc = "idle", !.view = {}, !.target = NoImage, !.caption_text = << >>]

\* batches of files the uploader can hand over
Batches == UNION {[1..n -> FileNames] : n \in 1..MaxBatch}

\* uuid4 calls the running batches still have to make
Remaining(h) ==
  IF host[h].pc = "upload" THEN Len(host[h].uploaded) - Len(host[h].results) ELSE 0

RECURSIVE SumRemaining(_)
SumRemaining(S) ==
  IF S = {} THEN 0
  ELSE LET h == CHOOSE x \in S : TRUE IN Remaining(h) + SumRemaining(S \ {h})

\* ---- host script (lines 209-284) -----------------------------------------

\* lines 252-284 of a run in which the button del_<clicked> was pressed
\* (NoImage: no button): the images are listed, and delete_image_db starts
\* when the pressed button is among them; else the run ends, all rendered
HostScript(hs, clicked) ==
  { IF clicked \in Ids(imgs)
    THEN [Fresh(hs) EXCEPT !.pc = "del_select", !.target = clicked]
    ELSE [Fresh(hs) EXCEPT !.pc = "idle", !.view = Ids(imgs)]
    : imgs \in list_room_images(hs.room_id) } \cup {Abort(hs)}

\* "Create new room": create_room_db, _set_params, st.rerun (lines 213-216)
HostCreateRoom(h) ==
  /\ host[h].pc = "idle"
  /\ Cardinality(rooms) < MaxRooms
  /\ \E ok \in BOOLEAN :
       IF ok
       THEN LET rid == Cardinality(rooms) + 1
            IN /\ rooms' = rooms \cup {rid}
               /\ \E hs \in HostScript([host[h] EXCEPT !.room_id = rid], NoImage) :
                    host' = [host EXCEPT ![h] = hs]
       ELSE /\ rooms' = rooms
            /\ host' = [host EXCEPT ![h] = Abort(@)]
  /\ UNCHANGED <<images, captions, bucket, now, nextImg, nextCap, player, saved>>

\* the host link opened (or reloaded) with ?room_id=r: the script runs
HostOpenLink(h, r) ==
  /\ host[h].pc = "idle"
  /\ r \in rooms
  /\ \E hs \in HostScript([host[h] EXCEPT !.room_id = r], NoImage) :
       host' = [host EXCEPT ![h] = hs]
  /\ UNCHANGED <<store, player, saved>>

\* the upload form submitted with files (line 235)
HostSubmitUpload(h, files) ==
  /\ host[h].pc = "idle"
  /\ host[h].room_id # NoRoom
  /\ (nextImg - 1) + SumRemaining(Hosts) + Len(files) <= MaxImages
  /\ host' = [host EXCEPT ![h] =
       [Fresh(@) EXCEPT !.pc = "upload", !.uploaded = files]]
  /\ UNCHANGED <<store, player, saved>>

UploadOutcomes == {"read_error", "ok", "fallback_ok", "fallback_error", "bad_response"}

SaveOutcomes == {"ok", "error_response", "raise"}

\* upload_image: whether the bytes were stored (lines 117-142)
UploadSuccess(outcome) == outcome \in {"ok", "fallback_ok"}

\* get_public_url (line 147); the row's public_url is read by the views only
PublicUrl(storage_path) == <<"url">> \o storage_path

\* save_image_db: the payload (lines 66-72) as the store keeps it
ImageRow(room_id, img_id, filename, storage_path, public_url, at) ==
  [id |-> img_id, room_id |-> room_id, filename |-> filename,
   storage_path |-> storage_path, public_url |-> public_url, uploaded_at |-> at]

\* one turn of the loop of line 236: upload_image, then save_image_db
HostUploadFile(h) ==
  /\ host[h].pc = "upload"
  /\ Len(host[h].results) < Len(host[h].uploaded)
  /\ LET hs == host[h]
         original_name == hs.uploaded[Len(hs.results) + 1]
         img_id == nextImg
         storage_path == StoragePath(hs.room_id, img_id, Suffix(original_name))
     IN /\ nextImg' = nextImg + 1
        /\ \E o \in UploadOutcomes :
             IF ~UploadSuccess(o)
             THEN /\ host' = [host EXCEPT ![h].results =
                       Append(@, [status |-> "upload_failed", id |-> NoImage])]
                  /\ UNCHANGED <<images, bucket, now, saved>>
             ELSE /\ bucket' = bucket \cup {storage_path}
                  /\ \E s \in SaveOutcomes :
                       CASE s = "ok" ->
                              /\ now' \in Later
                              /\ images' = images \cup
                                   {ImageRow(hs.room_id, img_id, original_name,
                                             storage_path, PublicUrl(storage_path), now')}
                              /\ saved' = saved \cup {<<hs.room_id, img_id>>}
                              /\ host' = [host EXCEPT ![h].results =
                                   Append(@, [status |-> "saved", id |-> img_id])]
                        [] s = "error_response" ->
                              /\ host' = [host EXCEPT ![h].results =
                                   Append(@, [status |-> "save_failed", id |-> img_id])]
                              /\ UNCHANGED <<images, now, saved>>
                        [] s = "raise" ->
                              /\ host' = [host EXCEPT ![h] = Abort(@)]
                              /\ UNCHANGED <<images, now, saved>>
  /\ UNCHANGED <<rooms, captions, nextCap, player>>

\* the loop is over: st.rerun (line 243), and the run it starts
HostUploadRerun(h) ==
  /\ host[h].pc = "upload"
  /\ Len(host[h].results) = Len(host[h].uploaded)
  /\ \E hs \in HostScript(host[h], NoImage) : host' = [host EXCEPT ![h] = hs]
  /\ UNCHANGED <<store, player, saved>>

\* the Delete button of a rendered image pressed (line 282): the script runs
HostClickDelete(h, id) ==
  /\ host[h].pc = "idle"
  /\ id \in host[h].view
  /\ \E hs \in HostScript(host[h], id) : host' = [host EXCEPT ![h] = hs]
  /\ UNCHANGED <<store, player, saved>>

\* delete_image_db, lines 100-102
HostDelSelect(h) ==
  /\ host[h].pc = "del_select"
  /\ \E ok \in BOOLEAN :
       IF ok
       THEN LET rows == _extract_data([data |-> {i \in images : i.id = host[h].target}])
            IN host' = [host EXCEPT ![h] =
                 [@ EXCEPT !.pc = "del_images",
                           !.storage_path = StoragePathOf(rows),
                           !.ncaps = Cardinality(CaptionsOfImage(host[h].target))]]
       ELSE host' = [host EXCEPT ![h] = Abort(@)]
  /\ UNCHANGED <<store, player, saved>>

\* delete_image_db, line 104
HostDelImages(h) ==
  /\ host[h].pc = "del_images"
  /\ \E ok \in BOOLEAN :
       IF ok
       THEN /\ images' = DeleteImageRows(images, host[h].target)
            /\ host' = [host EXCEPT ![h].pc = "del_captions"]
       ELSE /\ host' = [host EXCEPT ![h] = Abort(@)]
            /\ UNCHANGED images
  /\ UNCHANGED <<rooms, captions, bucket, now, nextImg, nextCap, player, saved>>

\* delete_image_db, lines 105-106
HostDelCaptions(h) ==
  /\ host[h].pc = "del_captions"
  /\ \E ok \in BOOLEAN :
       IF ok
       THEN /\ captions' = DeleteCaptionRows(captions, host[h].target)
            /\ host' = [host EXCEPT ![h].pc = "del_done"]
       ELSE /\ host' = [host EXCEPT ![h] = Abort(@)]
            /\ UNCHANGED captions
  /\ UNCHANGED <<rooms, images, bucket, now, nextImg, nextCap, player, saved>>

\* storage_path = delete_image_db(...) has returned: st.rerun (lines 283-284),
\* and the run it starts
HostDelRerun(h) ==
  /\ host[h].pc = "del_done"
  /\ \E hs \in HostScript(host[h], NoImage) : host' = [host EXCEPT ![h] = hs]
  /\ UNCHANGED <<store, player, saved>>

\* ---- player script (lines 287-328) ---------------------------------------

\* line 325 without its strip()
AcceptsUntrimmed(caption_text) == caption_text # << >>

\* line 325: the submitted text counts when something is left after strip()
Accepts(caption_text) == Strip(caption_text) # << >>

\* caption ids the submissions under way will still take
InFlight == Cardinality({p \in Players : player[p].pc = "add"})

\* lines 302-326 of a run in which the form form_<submitted> was submitted with
\* caption_text (NoImage: no form): add_caption_db is called when the form is
\* among the listed images and the text is accepted
PlayerScript(ps, submitted, caption_text) ==
  { IF submitted \in Ids(imgs) /\ Accepts(caption_text)
    THEN [ps EXCEPT !.pc = "add", !.target = submitted, !.caption_text = caption_text]
    ELSE [ps EXCEPT !.pc = "idle", !.view = Ids(imgs),
                    !.target = NoImage, !.caption_text = << >>]
    : imgs \in list_room_images(ps.room_id) } \cup {PlayerAbort(ps)}

\* the player link opened (or reloaded) with ?room_id=r&role=player
PlayerOpenLink(p, r) ==
  /\ player[p].pc = "idle"
  /\ r \in rooms
  /\ \E ps \in PlayerScript([player[p] EXCEPT !.room_id = r], NoImage, << >>) :
       player' = [player EXCEPT ![p] = ps]
  /\ UNCHANGED <<store, host, saved>>

\* "Submit caption" pressed in the form of a rendered image: the script runs
PlayerSubmit(p, id, text) ==
  /\ player[p].pc = "idle"
  /\ id \in player[p].view
  /\ (nextCap - 1) + InFlight < MaxCaptions
  /\ \E ps \in PlayerScript(player[p], id, text) :
       player' = [player EXCEPT ![p] = ps]
  /\ UNCHANGED <<store, host, saved>>

\* add_caption_db: the payload (lines 84-89) as the store keeps it
CaptionRow(cid, image_id, player_name, text, at) ==
  [id |-> cid, image_id |-> image_id, player_name |-> player_name,
   text |-> text, created_at |-> at]

\* add_caption_db(img["id"], player_name, caption_text.strip()), st.rerun
\* (lines 326-328), and the run it starts
PlayerAdd(p) ==
  /\ player[p].pc = "add"
  /\ \E ok \in BOOLEAN :
       IF ok
       THEN /\ now' \in Later
            /\ captions' = captions \cup
                 {CaptionRow(nextCap, player[p].target, player[p].player_name,
                             Strip(player[p].caption_text), now')}
            /\ nextCap' = nextCap + 1
            /\ \E ps \in PlayerScript(player[p], NoImage, << >>) :
                 player' = [player EXCEPT ![p] = ps]
       ELSE /\ player' = [player EXCEPT ![p] = PlayerAbort(@)]
            /\ UNCHANGED <<captions, now, nextCap>>
  /\ UNCHANGED <<rooms, images, bucket, nextImg, host, saved>>

\* ---- the system ----------------------------------------------------------

\* one host and the players, every input
Next ==
  \/ \E h \in SoloHost : HostCreateRoom(h)
  \/ \E h \in SoloHost, r \in 1..MaxRooms : HostOpenLink(h, r)
  \/ \E h \in SoloHost, files \in Batches : HostSubmitUpload(h, files)
  \/ \E h \in SoloHost : HostUploadFile(h)
  \/ \E h \in SoloHost : HostUploadRerun(h)
  \/ \E h \in SoloHost, id \in 1..MaxImages : HostClickDelete(h, id)
  \/ \E h \in SoloHost : HostDelSelect(h)
  \/ \E h \in SoloHost : HostDelImages(h)
  \/ \E h \in SoloHost : HostDelCaptions(h)
  \/ \E h \in SoloHost : HostDelRerun(h)
  \/ \E p \in Players, r \in 1..MaxRooms : PlayerOpenLink(p, r)
  \/ \E p \in Players, id \in 1..MaxImages, text \in CaptionTexts : PlayerSubmit(p, id, text)
  \/ \E p \in Players : PlayerAdd(p)

Spec == Init /\ [][Next]_vars

\* room 1 has been created and its links are open in two host sessions and
\* in the player sessions, nothing uploaded yet
InitTwoHosts ==
  /\ rooms = {1}
  /\ images = {}
  /\ captions = {}
  /\ bucket = {}
  /\ now = 0
  /\ nextImg = 1
  /\ nextCap = 1
  /\ host = [h \in Hosts |-> [HostIdle EXCEPT !.room_id = 1]]
  /\ player = [p \in Players |-> [PlayerIdle EXCEPT !.room_id = 1]]
  /\ saved = {}

\* two host sessions and the players in that room; one file per upload, one
\* caption text
NextTwoHosts ==
  \/ \E h \in Hosts, r \in rooms : HostOpenLink(h, r)
  \/ \E h \in Hosts, name \in FileNames : HostSubmitUpload(h, <<name>>)
  \/ \E h \in Hosts : HostUploadFile(h)
  \/ \E h \in Hosts : HostUploadRerun(h)
  \/ \E h \in Hosts, id \in 1..MaxImages : HostClickDelete(h, id)
  \/ \E h \in Hosts : HostDelSelect(h)
  \/ \E h \in Hosts : HostDelImages(h)
  \/ \E h \in Hosts : HostDelCaptions(h)
  \/ \E h \in Hosts : HostDelRerun(h)
  \/ \E p \in Players, r \in rooms : PlayerOpenLink(p, r)
  \/ \E p \in Players, id \in 1..MaxImages : PlayerSubmit(p, id, <<" ", "a">>)
  \/ \E p \in Players : PlayerAdd(p)

SpecTwoHosts == InitTwoHosts /\ [][NextTwoHosts]_vars

\* ---- properties -----------------------------------------------------------

\* image ids save_image_db has inserted for a room
SavedTo(r) == {e[2] : e \in {x \in saved : x[1] = r}}

\* C1: when delete_image_db(id) returns, no list_room_images result of any
\* room holds id and get_captions_for_image(id) returns the empty list,
\* whatever number of captions the image had; and an image row that is gone
\* is never listed again.
C1_DeleteThenListsEmpty ==
  [][ /\ \A h \in Hosts :
           (host[h].pc = "del_captions" /\ host'[h].pc = "del_done") =>
              /\ \A r \in rooms : \A imgs \in list_room_images(r)' :
                    host[h].target \notin Ids(imgs)
              /\ get_captions_for_image(host[h].target)' = {<< >>}
      /\ \A r \in rooms : \A id \in SavedTo(r) \ RowIds(images) :
           \A imgs \in list_room_images(r)' : id \notin Ids(imgs) ]_vars

\* C1 witness: the delete of a stored image that had two captions has returned
C1_Witness ==
  \E h \in Hosts :
     /\ host[h].pc = "del_done"
     /\ host[h].ncaps >= 2
     /\ host[h].storage_path # NoPath
     /\ get_captions_for_image(host[h].target) = {<< >>}

\* no delete_image_db call is between its first and its last store call
NoDeleteInProgress ==
  \A h \in Hosts : host[h].pc \notin {"del_select", "del_images", "del_captions"}

\* C2: a caption is created only for an image that exists when it is created,
\* and whenever no delete is in progress every caption row refers to an image
\* row.
C2_NoOrphanCaption ==
  [][ /\ \A c \in captions' \ captions : c.image_id \in RowIds(images)
      /\ NoDeleteInProgress' =>
           \A c \in captions' : c.image_id \in RowIds(images') ]_vars

\* C3: the image row and its caption rows go in one step: a step that removes
\* an image row leaves no caption of that image, and a step that removes
\* captions of an image leaves no row of that image.
C3_DeleteAtomic ==
  [][ /\ \A id \in RowIds(images) \ RowIds(images') :
           \A c \in captions' : c.image_id # id
      /\ \A c \in captions \ captions' : c.image_id \notin RowIds(images') ]_vars

\* text is caption_text without its leading and its trailing whitespace
TrimmedFrom(text, caption_text) ==
  /\ text # << >>
  /\ text[1] \notin Whitespace
  /\ text[Len(text)] \notin Whitespace
  /\ \E i \in 1..Len(caption_text) :
       /\ i + Len(text) - 1 <= Len(caption_text)
       /\ text = SubSeq(caption_text, i, i + Len(text) - 1)
       /\ \A k \in 1..Len(caption_text) :
            (k < i \/ k > i + Len(text) - 1) => caption_text[k] \in Whitespace

\* C4: a submitted text that is empty or all whitespace never reaches
\* add_caption_db, so it adds no row; every row added holds the submitted text
\* without its leading and trailing whitespace, and no row has an empty text.
C4_BlankRejectedTextTrimmed ==
  [][ /\ \A p \in Players :
           player'[p].pc = "add" =>
              \E k \in DOMAIN player'[p].caption_text :
                 player'[p].caption_text[k] \notin Whitespace
      /\ \A c \in captions' \ captions :
           \E p \in Players :
              /\ player[p].pc = "add"
              /\ TrimmedFrom(c.text, player[p].caption_text)
      /\ \A c \in captions' : c.text # << >> ]_vars

\* C4 witness: a caption submitted with whitespace on both sides is stored
C4_Witness ==
  \E c \in captions : c.text = <<"a", " ", "b">>

\* the upload time of a listed image
UploadedAt(id) == (CHOOSE i \in images : i.id = id).uploaded_at

\* C5: while nothing has been deleted from a room, every list_room_images
\* result holds exactly the images saved to the room, each once, in
\* non-decreasing upload-time order.
C5_ListIsSavedInOrder ==
  \A r \in rooms :
     SavedTo(r) \subseteq RowIds(images) =>
        \A imgs \in list_room_images(r) :
           /\ Ids(imgs) = SavedTo(r)
           /\ Len(imgs) = Cardinality(SavedTo(r))
           /\ \A i, j \in DOMAIN imgs :
                i < j => UploadedAt(imgs[i].id) <= UploadedAt(imgs[j].id)

\* C5 witness: two images saved to one room at different times, none deleted
C5_Witness ==
  \E r \in rooms :
     /\ Cardinality(SavedTo(r)) = 2
     /\ SavedTo(r) \subseteq RowIds(images)
     /\ \E i, j \in ImagesOfRoom(r) : i.uploaded_at < j.uploaded_at

\* C6: a turn of the upload loop that has files after it leaves the loop
\* running for them, with the outcome of its file recorded; a file recorded as
\* saved has exactly one image row, and a file that failed has none.
C6_BatchFailuresIsolated ==
  [][ \A h \in Hosts :
        (host[h].pc = "upload" /\ Len(host[h].results) < Len(host[h].uploaded)
           /\ host'[h] # host[h]) =>
           /\ Len(host[h].results) + 1 < Len(host[h].uploaded) =>
                /\ host'[h].pc = "upload"
                /\ Len(host'[h].results) = Len(host[h].results) + 1
           /\ IF /\ host'[h].pc = "upload"
                 /\ host'[h].results[Len(host'[h].results)].status = "saved"
              THEN Cardinality({i \in images' : i.id = nextImg}) = 1
              ELSE \A i \in images' : i.id # nextImg ]_vars

\* C7: an image row is removed only by a step taken from the ConfirmingDelete
\* state of a host session.
C7_DeleteOnlyAfterConfirm ==
  [][ RowIds(images) \ RowIds(images') # {} =>
        \E h \in Hosts : host[h].pc = "ConfirmingDelete" ]_vars

\* C8: when the Delete handler of an image that had a row is over, the bucket
\* holds nothing at the image's storage path.
C8_BytesRemoved ==
  [][ \A h \in Hosts :
        (host[h].pc = "del_done" /\ host'[h].pc # "del_done"
           /\ host[h].storage_path # NoPath) =>
           host[h].storage_path \notin bucket' ]_vars

\* C9: of two distinct rooms, no list_room_images result of one holds an image
\* saved to the other, no caption listed under an image of one belongs to an
\* image saved to the other, and no storage path of one is a storage path of
\* the other.
C9_RoomsDisjoint ==
  \A r1, r2 \in rooms :
     r1 # r2 =>
        /\ \A imgs \in list_room_images(r1) :
             /\ Ids(imgs) \cap SavedTo(r2) = {}
             /\ \A id \in Ids(imgs) : \A c \in CaptionsOfImage(id) :
                  c.image_id \notin SavedTo(r2)
        /\ \A i1 \in ImagesOfRoom(r1), i2 \in ImagesOfRoom(r2) :
             i1.storage_path # i2.storage_path
        /\ SavedTo(r1) \cap SavedTo(r2) = {}

\* C9 witness: two rooms, each with an image of the same file name that has a
\* caption of the same text
C9_Witness ==
  \E i1, i2 \in images :
     /\ i1.room_id # i2.room_id
     /\ i1.filename = i2.filename
     /\ \E c1 \in CaptionsOfImage(i1.id), c2 \in CaptionsOfImage(i2.id) :
          c1.text = c2.text

\* C10: delete_image_db on an id without an image row returns None; each of
\* its store calls leaves the rows of other images and the captions of other
\* images as they are; and on an id that has neither row nor captions (as
\* after a first call) it changes nothing.
C10_DeleteMissingIsNoOp ==
  [][ \A h \in Hosts :
        LET id == host[h].target IN
        /\ (host[h].pc = "del_select" /\ host'[h].pc = "del_images"
              /\ id \notin RowIds(images)) => host'[h].storage_path = NoPath
        /\ (host[h].pc \in {"del_select", "del_images", "del_captions"}
              /\ host'[h] # host[h]) =>
              /\ {i \in images' : i.id # id} = {i \in images : i.id # id}
              /\ {c \in captions' : c.image_id # id} = {c \in captions : c.image_id # id}
              /\ (id \notin RowIds(images) /\ CaptionsOfImage(id) = {}) =>
                    (images' = images /\ captions' = captions) ]_vars

\* C10 witness: a delete of an id that had no row has returned None, with
\* another image and a caption in the store
C10_Witness ==
  \E h \in Hosts :
     /\ host[h].pc = "del_done"
     /\ host[h].storage_path = NoPath
     /\ images # {}
     /\ captions # {}

====
